---- MODULE Spec2Model ----
(***************************************************************************)
(* Model of block/s3/inventory_reader.go: the InventoryReader factory      *)
(* (GetManifestFileReader, getOrcReader, getParquetReader, download,       *)
(* clean), the ORC reader (Read, SkipRows, GetNumRows, Close) and the      *)
(* Parquet reader (Close).  Calls are serialized: one action is one call.  *)
(***************************************************************************)
EXTENDS Integers, Sequences, FiniteSets, TLC

VARIABLES
    format,         \* o.manifest.Format
    stripes,        \* row count of each stripe of the inventory objects
    orcFilesByKey,  \* o.orcFilesByKey: key -> *orcFile, NoEntry when absent
    disk,           \* names of the temporary files that exist on disk
    created,        \* number of temporary files ioutil.TempFile has created
    downloads,      \* per key, number of DownloadWithContext calls
    readers,        \* the readers GetManifestFileReader has returned
    lastCall,       \* the last call made and what it returned
    inflight        \* the getOrcReader calls running at once, by goroutine

vars == <<format, stripes, orcFilesByKey, disk, created, downloads, readers, lastCall,
          inflight>>

(* ---------------- bounds of the model ---------------- *)
MaxReaders == 2      \* readers returned by GetManifestFileReader
MaxFiles == 2        \* temporary files created
MaxReads == 2        \* Read calls, over all readers
MaxSkips == 2        \* SkipRows calls, over all readers
MaxBatch == 4        \* largest capacity of a caller's buffer
MaxStackDepth == 3   \* frames of Close the goroutine stack holds
MaxCalls == 2        \* goroutines calling GetManifestFileReader at once

(* ---------------- inputs ---------------- *)
Formats == {"ORC", "Parquet", "CSV"}
Files == <<"k1", "k2">>                       \* o.manifest.Files, by key
Keys == {Files[i] : i \in 1..Len(Files)}
Layouts == {<<3, 2>>, <<2>>, <<1, 0, 1>>}     \* stripes of an object
DownloadOutcomes == {"ok", "tempfile_err", "transport_err", "cancelled"}
OpenOutcomes == {"ok", "open_err"}
ParquetOutcomes == {"ok", "file_err", "reader_err"}

NoEntry == [none |-> TRUE]
NoPath == 0          \* the empty string, the zero value of localFilename
ZeroObject == 0      \* the zero value of InventoryObject

RECURSIVE SumTo(_, _)
SumTo(L, n) == IF n = 0 THEN 0 ELSE SumTo(L, n - 1) + L[n]

\* orc.Reader.NumRows: the record count of the file
NumRows(L) == SumTo(L, Len(L))

\* the slice the caller passes to Read: num elements, not yet filled
RECURSIVE Zeros(_)
Zeros(n) == IF n = 0 THEN <<>> ELSE Append(Zeros(n - 1), ZeroObject)

\* a call and its result: the operation, its key, the reader it is on or returns
\* (0: none), the error returned, the outcome of the o.download it made
\* ("none": it made none), the local path it opened or removed, its argument;
\* opens: the orc.Open calls it made
Call(op, key, rd, err, dl, path, n) ==
    [op |-> op, key |-> key, rd |-> rd, err |-> err, dl |-> dl, path |-> path,
     n |-> n, cFail |-> FALSE, rFail |-> FALSE, opens |-> 0]

\* one Read call in a reader's log: the length of the caller's slice, whether
\* Read stored into it, the records Read had accumulated when it returned, the
\* caller's slice after the call, the SkipRows calls made before this call
Entry(num, set, res, buf, sk) ==
    [num |-> num, set |-> set, res |-> res, buf |-> buf, sk |-> sk]

NoSkip == [n |-> -1, err |-> "none"]

\* a goroutine that has not called getOrcReader: pc is the line it stands
\* before, ref is where its file pointer leads ("map": to the struct the map
\* holds for its key, "own": to a struct the map holds no more, kept in own),
\* need is what line 121 read, dl and tmp are what o.download returned
NotCalled ==
    [pc |-> "idle", key |-> "", ref |-> "none", own |-> NoEntry, need |-> FALSE,
     dl |-> "none", tmp |-> NoPath]

\* NewInventoryReader: an empty map; the manifest and the objects are inputs
Init ==
    /\ format \in Formats
    /\ stripes \in Layouts
    /\ orcFilesByKey = [k \in Keys |-> NoEntry]
    /\ disk = {}
    /\ created = 0
    /\ downloads = [k \in Keys |-> 0]
    /\ readers = <<>>
    /\ lastCall = Call("New", "", 0, "nil", "none", NoPath, 0)
    /\ inflight = [c \in 1..MaxCalls |-> NotCalled]

(* ---------------- the factory ---------------- *)
Reader(kind, key, path) ==
    [kind |-> kind, key |-> key, file |-> path, st |-> "open",
     stripe |-> 0, row |-> 0, log |-> <<>>, nskips |-> 0, firstSkip |-> NoSkip,
     readStops |-> 0, handleCloses |-> 0, depth |-> 0]

\* no Close of a Parquet reader is running and the process has not died
Idle == \A i \in 1..Len(readers) : readers[i].st \notin {"closing", "overflow"}

\* FormatCase with the default case falling into the ORC case
FormatCaseOrcDefault(f) == IF f = "Parquet" THEN "parquet" ELSE "orc"

\* the switch of GetManifestFileReader
FormatCase(f) ==
    IF f = "ORC" THEN "orc" ELSE IF f = "Parquet" THEN "parquet" ELSE "default"

\* the loop of getOrcReader: the (0-based) index of the first file with this key
IdxOf(key, old) ==
    IF \E i \in 1..Len(Files) : Files[i] = key
    THEN (CHOOSE i \in 1..Len(Files) :
              Files[i] = key /\ \A j \in 1..(i - 1) : Files[j] # key) - 1
    ELSE old

\* the lookup-or-insert of getOrcReader
LookupOrInsert(key) ==
    IF orcFilesByKey[key] = NoEntry
    THEN [key |-> key, idx |-> 0, localFilename |-> NoPath, ready |-> FALSE]
    ELSE orcFilesByKey[key]

\* download with one fixed name for the temporary file
downloadFixedName(key, dl) ==
    IF dl = "tempfile_err" THEN [path |-> NoPath, err |-> dl, made |-> FALSE]
    ELSE IF dl # "ok" THEN [path |-> NoPath, err |-> dl, made |-> TRUE]
    ELSE [path |-> 1, err |-> "nil", made |-> TRUE]

\* download: TempFile, then DownloadWithContext into it; TempFile picks a name
\* no file has, here the next number; made: the temporary file was created
download(key, dl) ==
    IF dl = "tempfile_err" THEN [path |-> NoPath, err |-> dl, made |-> FALSE]
    ELSE IF dl # "ok" THEN [path |-> NoPath, err |-> dl, made |-> TRUE]
    ELSE [path |-> created + 1, err |-> "nil", made |-> TRUE]

\* NeedsDownload without the test of file.ready
NeedsDownloadAlways(file) == TRUE

\* the test of line 121
NeedsDownload(file) == ~file.ready

\* AfterDownload with the entry marked ready before err is looked at
AfterDownloadIgnoresErr(file, d) ==
    [file EXCEPT !.ready = TRUE, !.localFilename = d.path]

\* the entry after the download returned d
AfterDownload(file, d) ==
    IF d.err # "nil" THEN file
    ELSE [file EXCEPT !.ready = TRUE, !.localFilename = d.path]

\* getOrcReader with a failed download attempted a second time before returning
getOrcReaderRetrying(key, dl, op) ==
    LET file0 == LookupOrInsert(key)
        file1 == [file0 EXCEPT !.idx = IdxOf(key, file0.idx)]
        need == NeedsDownload(file1)
        d == IF need THEN download(key, dl)
             ELSE [path |-> NoPath, err |-> "nil", made |-> FALSE]
        file2 == IF need THEN AfterDownload(file1, d) ELSE file1
        tries == IF ~d.made THEN 0 ELSE IF d.err # "nil" THEN 2 ELSE 1
        disk2 == disk \cup {created + t : t \in 1..tries}
        opened == d.err = "nil" /\ op = "ok" /\ file2.localFilename \in disk2
        err == IF d.err # "nil" THEN d.err
               ELSE IF opened THEN "nil" ELSE "open_err"
    IN  /\ d.made => created < MaxFiles
        /\ opened => Len(readers) < MaxReaders
        /\ orcFilesByKey' = [orcFilesByKey EXCEPT ![key] = file2]
        /\ disk' = disk2
        /\ created' = created + tries
        /\ downloads' = [downloads EXCEPT ![key] = @ + tries]
        /\ readers' = IF opened
                      THEN Append(readers, Reader("orc", key, file2.localFilename))
                      ELSE readers
        /\ lastCall' = [Call("Get", key, IF opened THEN Len(readers) + 1 ELSE 0, err,
                             IF need THEN dl ELSE "none",
                             IF d.err = "nil" THEN file2.localFilename ELSE NoPath, 0)
                        EXCEPT !.opens = IF d.err = "nil" THEN 1 ELSE 0]

getOrcReader(key, dl, op) ==
    LET file0 == LookupOrInsert(key)
        file1 == [file0 EXCEPT !.idx = IdxOf(key, file0.idx)]
        need == NeedsDownload(file1)
        d == IF need THEN download(key, dl)
             ELSE [path |-> NoPath, err |-> "nil", made |-> FALSE]
        file2 == IF need THEN AfterDownload(file1, d) ELSE file1
        disk2 == IF d.made THEN disk \cup {created + 1} ELSE disk
        opened == d.err = "nil" /\ op = "ok" /\ file2.localFilename \in disk2
        err == IF d.err # "nil" THEN d.err
               ELSE IF opened THEN "nil" ELSE "open_err"
    IN  /\ d.made => created < MaxFiles
        /\ opened => Len(readers) < MaxReaders
        /\ orcFilesByKey' = [orcFilesByKey EXCEPT ![key] = file2]
        /\ disk' = disk2
        /\ created' = IF d.made THEN created + 1 ELSE created
        /\ downloads' = IF d.made THEN [downloads EXCEPT ![key] = @ + 1] ELSE downloads
        /\ readers' = IF opened
                      THEN Append(readers, Reader("orc", key, file2.localFilename))
                      ELSE readers
        /\ lastCall' = [Call("Get", key, IF opened THEN Len(readers) + 1 ELSE 0, err,
                             IF need THEN dl ELSE "none",
                             IF d.err = "nil" THEN file2.localFilename ELSE NoPath, 0)
                        EXCEPT !.opens = IF d.err = "nil" THEN 1 ELSE 0]

\* getParquetReader registering the key in the ORC map
getParquetReaderCaching(key, pq) ==
    /\ pq = "ok" => Len(readers) < MaxReaders
    /\ readers' = IF pq = "ok" THEN Append(readers, Reader("parquet", key, NoPath))
                  ELSE readers
    /\ lastCall' = Call("Get", key, IF pq = "ok" THEN Len(readers) + 1 ELSE 0,
                        IF pq = "ok" THEN "nil" ELSE pq, "none", NoPath, 0)
    /\ orcFilesByKey' = [orcFilesByKey EXCEPT ![key] = LookupOrInsert(key)]
    /\ UNCHANGED <<disk, created, downloads>>

getParquetReader(key, pq) ==
    /\ pq = "ok" => Len(readers) < MaxReaders
    /\ readers' = IF pq = "ok" THEN Append(readers, Reader("parquet", key, NoPath))
                  ELSE readers
    /\ lastCall' = Call("Get", key, IF pq = "ok" THEN Len(readers) + 1 ELSE 0,
                        IF pq = "ok" THEN "nil" ELSE pq, "none", NoPath, 0)
    /\ UNCHANGED <<orcFilesByKey, disk, created, downloads>>

GetManifestFileReader(key, dl, op, pq) ==
    /\ Idle
    /\ CASE FormatCase(format) = "orc" -> getOrcReader(key, dl, op)
         [] FormatCase(format) = "parquet" -> getParquetReader(key, pq)
         [] OTHER ->
              /\ lastCall' = Call("Get", key, 0, "ErrUnsupportedInventoryFormat",
                                  "none", NoPath, 0)
              /\ UNCHANGED <<orcFilesByKey, disk, created, downloads, readers>>
    /\ UNCHANGED <<inflight, format, stripes>>

\* clean without the delete of the map entry
cleanKeepsEntry(key) ==
    IF orcFilesByKey[key] = NoEntry
    THEN [panic |-> TRUE, files |-> orcFilesByKey, disk |-> disk]
    ELSE [panic |-> FALSE,
          files |-> orcFilesByKey,
          disk |-> disk \ {orcFilesByKey[key].localFilename}]

\* clean without the os.Remove
cleanKeepsFile(key) ==
    IF orcFilesByKey[key] = NoEntry
    THEN [panic |-> TRUE, files |-> orcFilesByKey, disk |-> disk]
    ELSE [panic |-> FALSE,
          files |-> [orcFilesByKey EXCEPT ![key] = NoEntry],
          disk |-> disk]

\* clean: the entry's file name is read through the map; a missing entry is a
\* nil pointer dereference
clean(key) ==
    IF orcFilesByKey[key] = NoEntry
    THEN [panic |-> TRUE, files |-> orcFilesByKey, disk |-> disk]
    ELSE [panic |-> FALSE,
          files |-> [orcFilesByKey EXCEPT ![key] = NoEntry],
          disk |-> disk \ {orcFilesByKey[key].localFilename}]

\* OrcManifestFileReader.Close; cFail, rFail: r.c.Close, r.reader.Close fail
OrcClose(i, cFail, rFail) ==
    /\ Idle
    /\ i \in 1..Len(readers)
    /\ readers[i].kind = "orc"
    /\ readers[i].st = "open"
    /\ LET c == clean(readers[i].key)
       IN  /\ orcFilesByKey' = c.files
           /\ disk' = c.disk
           /\ readers' = [readers EXCEPT ![i].st = IF c.panic THEN "panic" ELSE "closed"]
           /\ lastCall' = [Call("Close", readers[i].key, i,
                                IF c.panic THEN "panic" ELSE "nil", "none",
                                readers[i].file, 0)
                           EXCEPT !.cFail = cFail, !.rFail = rFail]
    /\ UNCHANGED <<inflight, format, stripes, created, downloads>>

(* ---------------- getOrcReader, statement by statement ---------------- *)
\* getOrcReader takes no lock: goroutines run its statements interleaved
\* the struct of lines 111-112
NewOrcFile(key) == [key |-> key, idx |-> 0, localFilename |-> NoPath, ready |-> FALSE]

\* the struct goroutine c's file pointer leads to
FileOf(c) ==
    IF inflight[c].ref = "map" THEN orcFilesByKey[inflight[c].key] ELSE inflight[c].own

\* the map and goroutine c's own struct after c wrote f through its pointer
MapAfter(c, f) ==
    IF inflight[c].ref = "map" THEN [orcFilesByKey EXCEPT ![inflight[c].key] = f]
    ELSE orcFilesByKey

OwnAfter(c, f) == IF inflight[c].ref = "map" THEN inflight[c].own ELSE f

\* line 110: the map lookup
GetLookup(c, key) ==
    /\ format = "ORC"
    /\ inflight[c].pc = "idle"
    /\ inflight' = [inflight EXCEPT
                       ![c].key = key,
                       ![c].ref = IF orcFilesByKey[key] # NoEntry THEN "map" ELSE "none",
                       ![c].pc = IF orcFilesByKey[key] # NoEntry THEN "test" ELSE "insert"]
    /\ UNCHANGED <<format, stripes, orcFilesByKey, disk, created, downloads, readers,
                   lastCall>>

\* lines 111-113: a new struct goes into the map; a struct another goroutine
\* put there for the key since line 110 is replaced, and stays with the
\* goroutines that hold a pointer to it
GetInsert(c) ==
    /\ inflight[c].pc = "insert"
    /\ LET key == inflight[c].key
       IN  /\ orcFilesByKey' = [orcFilesByKey EXCEPT ![key] = NewOrcFile(key)]
           /\ inflight' = [d \in 1..MaxCalls |->
                  IF d = c THEN [inflight[c] EXCEPT !.ref = "map", !.pc = "test"]
                  ELSE IF inflight[d].key = key /\ inflight[d].ref = "map"
                       THEN [inflight[d] EXCEPT !.ref = "own", !.own = orcFilesByKey[key]]
                       ELSE inflight[d]]
    /\ UNCHANGED <<format, stripes, disk, created, downloads, readers, lastCall>>

\* lines 115-121: the idx loop and the read of file.ready
GetTest(c) ==
    /\ inflight[c].pc = "test"
    /\ LET file1 == [FileOf(c) EXCEPT !.idx = IdxOf(inflight[c].key, @)]
           need == NeedsDownload(file1)
       IN  /\ orcFilesByKey' = MapAfter(c, file1)
           /\ inflight' = [inflight EXCEPT ![c].own = OwnAfter(c, file1),
                                           ![c].need = need,
                                           ![c].pc = IF need THEN "download" ELSE "open"]
    /\ UNCHANGED <<format, stripes, disk, created, downloads, readers, lastCall>>

\* line 122 with lines 123-125: o.download, and the return of its error
GetDownload(c, dl) ==
    /\ inflight[c].pc = "download"
    /\ LET key == inflight[c].key
           d == download(key, dl)
       IN  /\ d.made => created < MaxFiles
           /\ disk' = IF d.made THEN disk \cup {created + 1} ELSE disk
           /\ created' = IF d.made THEN created + 1 ELSE created
           /\ downloads' = IF d.made THEN [downloads EXCEPT ![key] = @ + 1]
                           ELSE downloads
           /\ inflight' = [inflight EXCEPT
                              ![c].dl = dl, ![c].tmp = d.path,
                              ![c].pc = IF d.err # "nil" THEN "done" ELSE "mark"]
           /\ lastCall' = IF d.err # "nil"
                          THEN Call("Get", key, 0, d.err, dl, NoPath, 0)
                          ELSE lastCall
    /\ UNCHANGED <<format, stripes, orcFilesByKey, readers>>

\* lines 126-127: the struct gets the downloaded file's name and ready = true
GetMark(c) ==
    /\ inflight[c].pc = "mark"
    /\ LET file2 == AfterDownload(FileOf(c), [path |-> inflight[c].tmp, err |-> "nil"])
       IN  /\ orcFilesByKey' = MapAfter(c, file2)
           /\ inflight' = [inflight EXCEPT ![c].own = OwnAfter(c, file2),
                                           ![c].pc = "open"]
    /\ UNCHANGED <<format, stripes, disk, created, downloads, readers, lastCall>>

\* lines 129-135: orc.Open on file.localFilename as it is now, and the return
GetOpen(c, op) ==
    /\ inflight[c].pc = "open"
    /\ LET key == inflight[c].key
           path == FileOf(c).localFilename
           opened == op = "ok" /\ path \in disk
       IN  /\ opened => Len(readers) < MaxReaders
           /\ readers' = IF opened THEN Append(readers, Reader("orc", key, path))
                         ELSE readers
           /\ lastCall' = [Call("Get", key, IF opened THEN Len(readers) + 1 ELSE 0,
                                IF opened THEN "nil" ELSE "open_err",
                                inflight[c].dl, path, 0)
                           EXCEPT !.opens = 1]
           /\ inflight' = [inflight EXCEPT ![c].pc = "done"]
    /\ UNCHANGED <<format, stripes, orcFilesByKey, disk, created, downloads>>

\* two goroutines stand before the map assignment of line 113: the writes may
\* overlap, and the runtime may end the process (concurrent map writes)
MapRaceFatal ==
    /\ \E c, d \in 1..MaxCalls :
           c # d /\ inflight[c].pc = "insert" /\ inflight[d].pc = "insert"
    /\ inflight' = [c \in 1..MaxCalls |->
                       IF inflight[c].pc \in {"idle", "done"} THEN inflight[c]
                       ELSE [inflight[c] EXCEPT !.pc = "fatal"]]
    /\ lastCall' = [lastCall EXCEPT !.err = "concurrent map writes"]
    /\ UNCHANGED <<format, stripes, orcFilesByKey, disk, created, downloads, readers>>

(* ---------------- the Parquet reader ---------------- *)
\* ParquetManifestFileReader.Close, entered by the caller: p.ReadStop() runs,
\* then line 140 calls p.Close, which is this method again (the embedded
\* ParquetReader's own methods are shadowed by it)
ParquetClose(i) ==
    /\ Idle
    /\ i \in 1..Len(readers)
    /\ readers[i].kind = "parquet"
    /\ readers[i].st = "open"
    /\ readers' = [readers EXCEPT ![i].st = "closing", ![i].depth = 1,
                                  ![i].readStops = @ + 1]
    /\ lastCall' = Call("Close", readers[i].key, i, "running", "none", NoPath, 0)
    /\ UNCHANGED <<inflight, format, stripes, orcFilesByKey, disk, created, downloads>>

\* the call of line 140 enters Close again: one more frame, one more ReadStop
ParquetCloseRecurse(i) ==
    /\ i \in 1..Len(readers)
    /\ readers[i].st = "closing"
    /\ readers[i].depth < MaxStackDepth
    /\ readers' = [readers EXCEPT ![i].depth = @ + 1, ![i].readStops = @ + 1]
    /\ UNCHANGED <<inflight, format, stripes, orcFilesByKey, disk, created, downloads, lastCall>>

\* the goroutine stack is exhausted: the runtime ends the process
ParquetCloseOverflow(i) ==
    /\ i \in 1..Len(readers)
    /\ readers[i].st = "closing"
    /\ readers[i].depth = MaxStackDepth
    /\ readers' = [readers EXCEPT ![i].st = "overflow"]
    /\ lastCall' = [lastCall EXCEPT !.err = "stack overflow"]
    /\ UNCHANGED <<inflight, format, stripes, orcFilesByKey, disk, created, downloads>>

(* ---------------- the ORC cursor ---------------- *)
\* orc.Cursor.Next: one more row of the current stripe, if it has one
CursorNext(L, c) ==
    IF c.stripe >= 1 /\ c.row < L[c.stripe]
    THEN [ok |-> TRUE, stripe |-> c.stripe, row |-> c.row + 1]
    ELSE [ok |-> FALSE, stripe |-> c.stripe, row |-> c.row]

\* orc.Cursor.Stripes: prepare the next stripe, dropping what is left of this one
CursorStripes(L, c) ==
    IF c.stripe < Len(L)
    THEN [ok |-> TRUE, stripe |-> c.stripe + 1, row |-> 0]
    ELSE [ok |-> FALSE, stripe |-> c.stripe, row |-> c.row]

\* orc.Cursor.Row through inventoryObjectFromOrc: the record the cursor is on,
\* named by its position in the file (1..NumRows)
CursorRow(L, c) == SumTo(L, c.stripe - 1) + c.row

\* the number of records before the cursor's next record when it reads on
Position(L, c) == IF c.stripe = 0 THEN 0 ELSE SumTo(L, c.stripe - 1) + c.row

\* the loop of Read: set is TRUE when line 169 stored res into the caller's slice
RECURSIVE ReadLoop(_, _, _, _)
ReadLoop(L, c, res, num) ==
    LET n1 == CursorNext(L, c)
        s == CursorStripes(L, c)
        n2 == CursorNext(L, s)
        at == IF n1.ok THEN n1 ELSE n2
        res1 == Append(res, CursorRow(L, at))
    IN  IF ~n1.ok /\ ~s.ok THEN [set |-> FALSE, res |-> res, stripe |-> s.stripe, row |-> s.row]
        ELSE IF ~n1.ok /\ ~n2.ok
             THEN [set |-> FALSE, res |-> res, stripe |-> n2.stripe, row |-> n2.row]
        ELSE IF Len(res1) = num
             THEN [set |-> TRUE, res |-> res1, stripe |-> at.stripe, row |-> at.row]
        ELSE ReadLoop(L, at, res1, num)

\* the loops of SkipRows
RECURSIVE SkipLoop(_, _, _, _)
SkipLoop(L, c, skipped, n) ==
    LET nx == CursorNext(L, c)
        s == CursorStripes(L, c)
    IN  IF c.inner /\ nx.ok
        THEN IF skipped + 1 = n
             THEN [err |-> "nil", stripe |-> nx.stripe, row |-> nx.row]
             ELSE SkipLoop(L, [inner |-> TRUE, stripe |-> nx.stripe, row |-> nx.row],
                           skipped + 1, n)
        ELSE IF s.ok
             THEN SkipLoop(L, [inner |-> TRUE, stripe |-> s.stripe, row |-> s.row],
                           skipped, n)
             ELSE [err |-> "no more rows to skip", stripe |-> s.stripe, row |-> s.row]

\* SkipResult without the early return of i == 0
SkipResultNoZeroCheck(L, c, n) ==
    SkipLoop(L, [inner |-> FALSE, stripe |-> c.stripe, row |-> c.row], 0, n)

\* SkipRows: the error returned and where the cursor stands
SkipResult(L, c, n) ==
    IF n = 0 THEN [err |-> "nil", stripe |-> c.stripe, row |-> c.row]
    ELSE SkipLoop(L, [inner |-> FALSE, stripe |-> c.stripe, row |-> c.row], 0, n)

\* OrcManifestFileReader.Read on a slice of length num; the reader's log gets
\* the slice as the caller finds it after the call
Read(i, num) ==
    /\ Idle
    /\ i \in 1..Len(readers)
    /\ readers[i].kind = "orc"
    /\ readers[i].st = "open"
    /\ LET r == ReadLoop(stripes, readers[i], <<>>, num)
           buf == IF r.set THEN r.res ELSE Zeros(num)
       IN  /\ readers' = [readers EXCEPT
                             ![i].stripe = r.stripe, ![i].row = r.row,
                             ![i].log = Append(@, Entry(num, r.set, r.res, buf, readers[i].nskips))]
           /\ lastCall' = Call("Read", readers[i].key, i, "nil", "none",
                               readers[i].file, num)
    /\ UNCHANGED <<inflight, format, stripes, orcFilesByKey, disk, created, downloads>>

\* OrcManifestFileReader.SkipRows
SkipRows(i, n) ==
    /\ Idle
    /\ i \in 1..Len(readers)
    /\ readers[i].kind = "orc"
    /\ readers[i].st = "open"
    /\ LET r == SkipResult(stripes, readers[i], n)
       IN  /\ readers' = [readers EXCEPT
                             ![i].stripe = r.stripe, ![i].row = r.row,
                             ![i].nskips = @ + 1,
                             ![i].firstSkip = IF readers[i].nskips = 0
                                              THEN [n |-> n, err |-> r.err] ELSE @]
           /\ lastCall' = Call("SkipRows", readers[i].key, i, r.err, "none",
                               readers[i].file, n)
    /\ UNCHANGED <<inflight, format, stripes, orcFilesByKey, disk, created, downloads>>

\* OrcManifestFileReader.GetNumRows
GetNumRows(i) == NumRows(stripes)

(* ---------------- the specifications ---------------- *)
\* the Read and the SkipRows calls made so far, over all readers
ReadCalls == SumTo([i \in 1..Len(readers) |-> Len(readers[i].log)], Len(readers))
SkipCalls == SumTo([i \in 1..Len(readers) |-> readers[i].nskips], Len(readers))

\* the factory and the readers' Close: any keys, several readers at a time
Next ==
    \/ \E key \in Keys, dl \in DownloadOutcomes, op \in OpenOutcomes,
          pq \in ParquetOutcomes : GetManifestFileReader(key, dl, op, pq)
    \/ \E i \in 1..MaxReaders, cFail \in BOOLEAN, rFail \in BOOLEAN :
          OrcClose(i, cFail, rFail)
    \/ \E i \in 1..MaxReaders : ParquetClose(i)
    \/ \E i \in 1..MaxReaders : ParquetCloseRecurse(i)
    \/ \E i \in 1..MaxReaders : ParquetCloseOverflow(i)

InitFactory == Init /\ stripes = <<3, 2>>

Spec == InitFactory /\ [][Next]_vars

\* one ORC reader, of the manifest's first file, from GetManifestFileReader to
\* Close, over every layout
NextReader ==
    \/ \E op \in OpenOutcomes :
          readers = <<>> /\ GetManifestFileReader(Files[1], "ok", op, "ok")
    \/ \E i \in 1..MaxReaders, num \in 0..MaxBatch :
          ReadCalls < MaxReads /\ Read(i, num)
    \/ \E i \in 1..MaxReaders, n \in 0..(NumRows(stripes) + 1) :
          SkipCalls < MaxSkips /\ SkipRows(i, n)
    \/ \E i \in 1..MaxReaders, cFail \in BOOLEAN, rFail \in BOOLEAN :
          OrcClose(i, cFail, rFail)

InitReader == Init /\ format = "ORC"

SpecReader == InitReader /\ [][NextReader]_vars

\* GetManifestFileReader calls of the ORC format made by goroutines at once
NextConcurrent ==
    \/ \E c \in 1..MaxCalls, key \in Keys : GetLookup(c, key)
    \/ \E c \in 1..MaxCalls : GetInsert(c)
    \/ \E c \in 1..MaxCalls : GetTest(c)
    \/ \E c \in 1..MaxCalls, dl \in DownloadOutcomes : GetDownload(c, dl)
    \/ \E c \in 1..MaxCalls : GetMark(c)
    \/ \E c \in 1..MaxCalls, op \in OpenOutcomes : GetOpen(c, op)
    \/ MapRaceFatal

InitConcurrent == Init /\ format = "ORC" /\ stripes = <<3, 2>>

SpecConcurrent == InitConcurrent /\ [][NextConcurrent]_vars

(* ---------------- properties ---------------- *)
Last(s) == s[Len(s)]

\* the records Read calls stored into their callers' slices, in call order
RECURSIVE Delivered(_)
Delivered(log) ==
    IF log = <<>> THEN <<>>
    ELSE (IF Head(log).set THEN Head(log).res ELSE <<>>) \o Delivered(Tail(log))

\* the records a..b of a file, in file order
Range(a, b) == [k \in 1..(b - a + 1) |-> a + k - 1]

OrcReaders == {i \in 1..Len(readers) : readers[i].kind = "orc"}

\* C1: with a Format that is neither "ORC" nor "Parquet", every
\* GetManifestFileReader call returns ErrUnsupportedInventoryFormat and no
\* reader, makes no download, and the cache, the disk and the temporary-file
\* counter stay as NewInventoryReader left them.
UnsupportedFormatHasNoEffect ==
    format \notin {"ORC", "Parquet"} =>
        /\ orcFilesByKey = [k \in Keys |-> NoEntry]
        /\ disk = {} /\ created = 0
        /\ downloads = [k \in Keys |-> 0]
        /\ readers = <<>>
        /\ lastCall.op = "Get" =>
               /\ lastCall.err = "ErrUnsupportedInventoryFormat"
               /\ lastCall.rd = 0 /\ lastCall.dl = "none"

UnsupportedFormatCalled == format = "CSV" /\ lastCall.op = "Get"

NoReaderClosed(k) ==
    \A i \in 1..Len(readers) : readers[i].key = k => readers[i].st = "open"

\* C2 as stated: for ORC, as long as no reader of a key has been closed, the
\* reader requests for that key have made at most one download between them.
OneDownloadPerKeyWithoutClose ==
    \A k \in Keys : (format = "ORC" /\ NoReaderClosed(k)) => downloads[k] <= 1

\* C2 as amended: for ORC, a GetManifestFileReader call for a key whose cache
\* entry has Ready=true makes no download, creates no temporary file, and
\* when it returns a reader, the reader is opened on the entry's local path,
\* the one the earlier call downloaded.
ReadyEntryIsReused ==
    [][\A k \in Keys :
          (/\ format = "ORC"
           /\ lastCall'.op = "Get" /\ lastCall'.key = k
           /\ orcFilesByKey[k] # NoEntry
           /\ orcFilesByKey[k].ready)
          => /\ lastCall'.dl = "none"
             /\ downloads' = downloads /\ created' = created /\ disk' = disk
             /\ lastCall'.err = "nil" =>
                    /\ lastCall'.path = orcFilesByKey[k].localFilename
                    /\ readers'[lastCall'.rd].file = orcFilesByKey[k].localFilename
                    /\ orcFilesByKey'[k] = orcFilesByKey[k]]_vars

SecondReaderSharesFile ==
    /\ lastCall.op = "Get" /\ lastCall.err = "nil" /\ lastCall.dl = "none"
    /\ \E i \in OrcReaders : i < lastCall.rd /\ readers[i].st = "open"
                             /\ readers[i].key = lastCall.key
                             /\ readers[i].file = readers[lastCall.rd].file

\* C3: when Close of an ORC reader has run, the cache has no entry for the
\* reader's key and the file the reader was opened on is not on disk, whatever
\* Read and SkipRows calls came before and whether or not r.c.Close and
\* r.reader.Close failed.
CloseRemovesEntryAndFile ==
    (format = "ORC" /\ lastCall.op = "Close") =>
        /\ orcFilesByKey[lastCall.key] = NoEntry
        /\ readers[lastCall.rd].file \notin disk

ClosedAfterFailures ==
    /\ format = "ORC" /\ lastCall.op = "Close" /\ lastCall.err = "nil"
    /\ lastCall.cFail /\ lastCall.rFail
    /\ readers[lastCall.rd].log # <<>>
    /\ readers[lastCall.rd].firstSkip.err = "no more rows to skip"

\* reader i has only been read, with slices of one length N >= 1, and its last
\* Read ran out of row-groups
ReadToExhaustion(i) ==
    /\ readers[i].log # <<>>
    /\ \A j \in 1..Len(readers[i].log) :
          readers[i].log[j].num >= 1 /\ readers[i].log[j].num = readers[i].log[1].num
    /\ ~Last(readers[i].log).set

\* C4: on a reader that has only been read, with capacity N >= 1, until a Read
\* ran out of row-groups, the records delivered over all the calls are the
\* records 1..R of the file, each once and in file order, R = GetNumRows().
ReadUntilExhaustionDeliversAll ==
    \A i \in OrcReaders :
        (readers[i].nskips = 0 /\ ReadToExhaustion(i)) =>
            Delivered(readers[i].log) = Range(1, GetNumRows(i))

\* C5: a Read that runs out of row-groups with k < N records accumulated
\* leaves exactly those k records in the caller's slice.
PartialBatchIsDelivered ==
    \A i \in OrcReaders : \A j \in 1..Len(readers[i].log) :
        LET e == readers[i].log[j]
        IN  (~e.set /\ Len(e.res) < e.num) => e.buf = e.res

\* reader i was fresh when its one SkipRows call was made
SkippedFresh(i) ==
    /\ readers[i].nskips = 1
    /\ readers[i].log # <<>> => readers[i].log[1].sk = 1

\* C6: on a fresh reader of a file of R records, SkipRows(n) with 0 < n < R
\* returns no error and the Read calls that follow, until one runs out of
\* row-groups, deliver the records n+1..R in file order; SkipRows(R + 1)
\* returns the skip-exhaustion error.
SkipThenReadDeliversRest ==
    \A i \in OrcReaders :
        LET R == GetNumRows(i)
            n == readers[i].firstSkip.n
        IN  /\ (SkippedFresh(i) /\ n = R + 1) =>
                   readers[i].firstSkip.err = "no more rows to skip"
            /\ (SkippedFresh(i) /\ 0 < n /\ n < R) =>
                   /\ readers[i].firstSkip.err = "nil"
                   /\ ReadToExhaustion(i) =>
                          Delivered(readers[i].log) = Range(n + 1, R)

\* C7: a SkipRows(0) call on an open reader returns no error and leaves the
\* cursor where it was, so every Read that follows returns what it would
\* have returned without the call.
SkipRowsZeroIsNoOp ==
    [][\A i \in OrcReaders :
          (/\ lastCall'.op = "SkipRows" /\ lastCall'.n = 0 /\ lastCall'.rd = i
           /\ readers'[i].nskips = readers[i].nskips + 1)
          => /\ lastCall'.err = "nil"
             /\ readers'[i].stripe = readers[i].stripe
             /\ readers'[i].row = readers[i].row
             /\ \A num \in 0..MaxBatch :
                    ReadLoop(stripes, readers'[i], <<>>, num)
                        = ReadLoop(stripes, readers[i], <<>>, num)]_vars

SkippedZeroMidStripe ==
    /\ lastCall.op = "SkipRows" /\ lastCall.n = 0 /\ lastCall.err = "nil"
    /\ readers[lastCall.rd].stripe >= 1
    /\ readers[lastCall.rd].row > 0
    /\ readers[lastCall.rd].row < stripes[readers[lastCall.rd].stripe]

\* C8: Close of a Parquet reader stops the read stream once, releases the
\* file handle once and returns.
ParquetCloseStopsOnceAndReturns ==
    \A i \in 1..Len(readers) :
        readers[i].kind = "parquet" =>
            /\ readers[i].readStops <= 1
            /\ readers[i].st # "overflow"
            /\ readers[i].st = "closed" =>
                   readers[i].readStops = 1 /\ readers[i].handleCloses = 1

\* C9: when every reader GetManifestFileReader has returned is closed, no
\* temporary file it created is left on disk.
EveryTempFileDeletedOnClose ==
    (format = "ORC" /\ \A i \in 1..Len(readers) : readers[i].st # "open")
        => disk = {}

\* C10: a GetManifestFileReader call whose download failed or was cancelled
\* returns that error and no reader, and the entry it leaves for the key has
\* Ready=false and no local path.
FailedDownloadLeavesNoReadyEntry ==
    (lastCall.op = "Get" /\ lastCall.dl \notin {"none", "ok"}) =>
        /\ lastCall.err = lastCall.dl
        /\ lastCall.rd = 0
        /\ orcFilesByKey[lastCall.key] # NoEntry =>
               /\ ~orcFilesByKey[lastCall.key].ready
               /\ orcFilesByKey[lastCall.key].localFilename = NoPath

DownloadCancelled ==
    /\ lastCall.op = "Get" /\ lastCall.dl = "cancelled"
    /\ orcFilesByKey[lastCall.key] # NoEntry

\* C11: a SkipRows(n) call with n > 0 that returns no error, from wherever the
\* cursor stands, moves the cursor past exactly n records: the next record
\* Read delivers is n positions after the one it would have delivered.
SkipRowsAdvancesExactlyN ==
    [][\A i \in OrcReaders :
          (/\ lastCall'.op = "SkipRows" /\ lastCall'.rd = i
           /\ lastCall'.n > 0 /\ lastCall'.err = "nil"
           /\ readers'[i].nskips = readers[i].nskips + 1)
          => Position(stripes, readers'[i])
                 = Position(stripes, readers[i]) + lastCall'.n]_vars

\* C12: a Read on a slice of length N >= 0 takes at most N records from the
\* cursor and leaves at most N records in the slice.
ReadTakesAtMostCapacity ==
    \A i \in OrcReaders : \A j \in 1..Len(readers[i].log) :
        /\ Len(readers[i].log[j].res) <= readers[i].log[j].num
        /\ Len(readers[i].log[j].buf) <= readers[i].log[j].num

\* C13: a Read with capacity N >= 1 made while at least N records remain
\* after the cursor delivers the next N records in file order, whatever the
\* stripes (empty ones too); a Read stops short only on the last stripe.
ReadCrossesRowGroups ==
    [][\A i \in OrcReaders :
          (/\ lastCall'.op = "Read" /\ lastCall'.rd = i /\ lastCall'.n >= 1
           /\ Len(readers'[i].log) = Len(readers[i].log) + 1)
          => LET e == Last(readers'[i].log)
                 at == Position(stripes, readers[i])
             IN  /\ NumRows(stripes) - at >= lastCall'.n =>
                        e.set /\ e.buf = Range(at + 1, at + lastCall'.n)
                 /\ ~e.set => readers'[i].stripe = Len(stripes)]_vars

\* C14: Close of an ORC reader returns an error when r.c.Close or
\* r.reader.Close failed, and no error only when every step succeeded.
CloseReportsLastFailure ==
    (format = "ORC" /\ lastCall.op = "Close") =>
        ((lastCall.cFail \/ lastCall.rFail) <=> lastCall.err # "nil")

\* C15: for every open ORC reader the cache holds an entry for the reader's
\* key and the file the reader was opened on is on disk.
OpenReaderHasEntryAndFile ==
    \A i \in OrcReaders :
        readers[i].st = "open" =>
            /\ orcFilesByKey[readers[i].key] # NoEntry
            /\ readers[i].file \in disk

\* C16: with the Parquet format, a GetManifestFileReader call, successful or
\* failed, changes no entry of the ORC map, makes no download and creates or
\* removes no temporary file.
ParquetGetLeavesCacheAndDisk ==
    [][(format = "Parquet" /\ lastCall'.op = "Get") =>
           /\ orcFilesByKey' = orcFilesByKey
           /\ disk' = disk
           /\ created' = created
           /\ downloads' = downloads]_vars

\* a Parquet reader was returned earlier and the last call for a reader failed
ParquetGetFailedAfterSuccess ==
    /\ format = "Parquet"
    /\ lastCall.op = "Get"
    /\ lastCall.err = "file_err"
    /\ Len(readers) >= 1

\* C17: one GetManifestFileReader call makes at most one download and at most
\* one orc.Open; a failed download or a failed open is the call's error, no
\* reader is returned and, after a failed download, no open is attempted; the
\* download count of a key grows only in a GetManifestFileReader call for it.
NoInternalRetry ==
    [][/\ \A k \in Keys :
              /\ downloads'[k] <= downloads[k] + 1
              /\ downloads'[k] # downloads[k] =>
                     lastCall'.op = "Get" /\ lastCall'.key = k
       /\ created' <= created + 1
       /\ (format = "ORC" /\ lastCall'.op = "Get") =>
              /\ lastCall'.opens <= 1
              /\ lastCall'.dl \notin {"none", "ok"} =>
                     /\ lastCall'.err = lastCall'.dl
                     /\ lastCall'.opens = 0
                     /\ lastCall'.rd = 0
                     /\ readers' = readers
              /\ lastCall'.err = "open_err" =>
                     /\ lastCall'.opens = 1
                     /\ lastCall'.rd = 0
                     /\ readers' = readers]_vars

\* a download failed in one call and the next call for the key made the second
\* download, which failed too
DownloadFailedAgainInNewCall ==
    /\ lastCall.op = "Get"
    /\ lastCall.dl = "transport_err"
    /\ downloads[lastCall.key] = 2

\* the goroutines whose o.download call for key k returned
Downloaded(k) ==
    {c \in 1..MaxCalls : inflight[c].key = k /\ inflight[c].dl # "none"}

\* C18: with getOrcReader calls interleaved statement by statement, every call
\* that read ready = false at line 121 makes its own download, whatever the
\* other calls do: the downloads of a key are as many as the calls for it that
\* came back from o.download with a temporary file made, and calls whose
\* download completed hold temporary files that are on disk and differ from one
\* call to the other.
ConcurrentCallsEachDownload ==
    /\ \A k \in Keys :
           downloads[k] =
               Cardinality({c \in Downloaded(k) : inflight[c].dl # "tempfile_err"})
    /\ \A c \in 1..MaxCalls :
           /\ (inflight[c].need /\ inflight[c].pc \in {"mark", "open", "done"})
                  => inflight[c].dl # "none"
           /\ inflight[c].dl # "none" => inflight[c].need
           /\ inflight[c].tmp # NoPath =>
                  /\ inflight[c].dl = "ok"
                  /\ inflight[c].tmp \in disk
    /\ \A c, d \in 1..MaxCalls :
           (c # d /\ inflight[c].tmp # NoPath /\ inflight[d].tmp # NoPath)
               => inflight[c].tmp # inflight[d].tmp

\* two calls for one key both downloaded the object and returned: two
\* downloads and two temporary files for the key, one of them not in the map
TwoDownloadsForOneKey ==
    \E c, d \in 1..MaxCalls :
        /\ c # d
        /\ inflight[c].key = inflight[d].key
        /\ inflight[c].pc = "done" /\ inflight[d].pc = "done"
        /\ inflight[c].tmp # NoPath /\ inflight[d].tmp # NoPath
        /\ inflight[c].tmp # inflight[d].tmp
        /\ {inflight[c].tmp, inflight[d].tmp} \subseteq disk
        /\ downloads[inflight[c].key] = 2
        /\ orcFilesByKey[inflight[c].key].ready

\* C19: under serialized calls, every entry of the map with ready = true has a
\* non-empty localFilename whose file is on disk, and every entry with
\* ready = false has an empty localFilename; an entry becomes ready, or gets a
\* localFilename, only in a GetManifestFileReader call for its key whose
\* download completed, and the name is that of the file this download made.
CacheEntryInvariant ==
    /\ [](\A k \in Keys :
              orcFilesByKey[k] # NoEntry =>
                  /\ orcFilesByKey[k].key = k
                  /\ orcFilesByKey[k].ready =>
                         /\ orcFilesByKey[k].localFilename # NoPath
                         /\ orcFilesByKey[k].localFilename \in disk
                  /\ ~orcFilesByKey[k].ready =>
                         orcFilesByKey[k].localFilename = NoPath)
    /\ [][\A k \in Keys :
              (/\ orcFilesByKey'[k] # NoEntry
               /\ orcFilesByKey'[k].ready
               /\ \/ orcFilesByKey[k] = NoEntry
                  \/ ~orcFilesByKey[k].ready
                  \/ orcFilesByKey[k].localFilename # orcFilesByKey'[k].localFilename)
              => /\ lastCall'.op = "Get"
                 /\ lastCall'.key = k
                 /\ lastCall'.dl = "ok"
                 /\ downloads'[k] = downloads[k] + 1
                 /\ orcFilesByKey'[k].localFilename = created'
                 /\ orcFilesByKey'[k].localFilename \notin disk]_vars

\* the map holds a ready entry and an entry whose download failed
ReadyAndUnreadyEntries ==
    \E k1, k2 \in Keys :
        /\ orcFilesByKey[k1] # NoEntry /\ orcFilesByKey[k1].ready
        /\ orcFilesByKey[k2] # NoEntry /\ ~orcFilesByKey[k2].ready

\* C20: the Close of an open ORC reader runs to its end and returns nil: clean
\* finds the entry of the reader's key in the map, also when another reader of
\* the key was opened and closed before.
FirstCloseCompletesNormally ==
    /\ \A i \in OrcReaders : readers[i].st # "panic"
    /\ (format = "ORC" /\ lastCall.op = "Close") => lastCall.err = "nil"

====
